---- MODULE Spec2Model ----
(***************************************************************************)
(* Model of upload_icons.py: download icons from the LaMetric catalog and  *)
(* upload them to an AWTRIX device.                                        *)
(*                                                                         *)
(* Strings are sequences of one-character strings, so that the regular     *)
(* expressions, split, strip and int() of the script are computed on the   *)
(* characters.  File extensions and URL prefixes are kept as whole tokens. *)
(***************************************************************************)
EXTENDS Integers, Sequences, FiniteSets, TLC

VARIABLES
    call,             \* the function under call and its arguments (unit specifications)
    ret,              \* <<value>> once the call has returned, <<>> before
    pc,               \* main(): "start", "loop", then "early_return" (a return before
                      \* the loop), "done" (the return after the summary) or
                      \* "uncaught_exception"
    args,             \* main(): the parsed command line and the answer typed at the prompt
    icons_to_upload,  \* main(): the insertion-ordered dict, a sequence of [name, id]
    idx,              \* main(): position of the for loop in icons_to_upload
    success_count,    \* main(): running success counter
    results,          \* history: the value process_icon returned for each icon, in order
    net,              \* history: every HTTP request issued, in order
    exit_code         \* <<status>> once the script has ended: the code main returned,
                      \* or 1 after an uncaught exception; <<>> while it runs

vars == <<call, ret, pc, args, icons_to_upload, idx, success_count, results, net, exit_code>>

None == "None"

-----------------------------------------------------------------------------
(* Bounds of the explored inputs *)

MaxGroups == 4      \* dot-separated labels in an explored address
MaxDigits == 4      \* digits in an explored decimal group
MaxNameLen == 4     \* characters in an explored icon name
MaxPairs == 2       \* --icon NAME ID pairs on an explored command line

-----------------------------------------------------------------------------
(* Characters *)

Digits == <<"0", "1", "2", "3", "4", "5", "6", "7", "8", "9">>

DigitChars == {Digits[i] : i \in 1..10}

LetterChars ==
    {"a", "b", "c", "d", "e", "f", "g", "h", "i", "j", "k", "l", "m",
     "n", "o", "p", "q", "r", "s", "t", "u", "v", "w", "x", "y", "z",
     "A", "B", "C", "D", "E", "F", "G", "H", "I", "J", "K", "L", "M",
     "N", "O", "P", "Q", "R", "S", "T", "U", "V", "W", "X", "Y", "Z"}

\* [a-zA-Z0-9]
IsAlnum(c) == c \in LetterChars \cup DigitChars

DigitValue(c) == (CHOOSE i \in 1..10 : Digits[i] = c) - 1

\* value of a non-empty string of decimal digits
RECURSIVE DecimalValue(_)
DecimalValue(s) ==
    IF Len(s) = 0 THEN 0
    ELSE 10 * DecimalValue(SubSeq(s, 1, Len(s) - 1)) + DigitValue(s[Len(s)])

\* str.split('.')
RECURSIVE Split(_)
Split(s) ==
    IF \A i \in 1..Len(s) : s[i] # "."
    THEN <<s>>
    ELSE LET k == CHOOSE i \in 1..Len(s) :
                      /\ s[i] = "."
                      /\ \A j \in 1..(i - 1) : s[j] # "."
         IN <<SubSeq(s, 1, k - 1)>> \o Split(SubSeq(s, k + 1, Len(s)))

\* int(token): an optional sign followed by at least one decimal digit
int(token) ==
    LET signed == Len(token) > 0 /\ token[1] \in {"-", "+"}
        body == IF signed THEN SubSeq(token, 2, Len(token)) ELSE token
    IN IF Len(body) > 0 /\ \A i \in 1..Len(body) : body[i] \in DigitChars
       THEN [ok |-> TRUE,
             value |-> IF signed /\ token[1] = "-"
                       THEN 0 - DecimalValue(body) ELSE DecimalValue(body)]
       ELSE [ok |-> FALSE, value |-> 0]

-----------------------------------------------------------------------------
(* validate_ip_or_hostname *)

Localhost == <<"l", "o", "c", "a", "l", "h", "o", "s", "t">>
Loopback == <<"1", "2", "7", ".", "0", ".", "0", ".", "1">>

MaxOctetDigits == 3
MaxOctet == 255
MaxLabelInner == 61

\* ^(\d{1,3}\.){3}\d{1,3}$
MatchesIPv4Pattern(address) ==
    LET groups == Split(address)
    IN /\ Len(groups) = 4
       /\ \A g \in 1..4 :
            /\ Len(groups[g]) \in 1..MaxOctetDigits
            /\ \A i \in 1..Len(groups[g]) : groups[g][i] \in DigitChars

\* all(0 <= int(octet) <= 255 for octet in octets)
OctetsInRange(address) ==
    LET octets == Split(address)
    IN \A g \in 1..Len(octets) :
         /\ int(octets[g]).ok
         /\ 0 <= int(octets[g]).value
         /\ int(octets[g]).value <= MaxOctet

\* [a-zA-Z0-9]([a-zA-Z0-9\-]{0,61}[a-zA-Z0-9])?
MatchesLabel(label) ==
    /\ Len(label) >= 1
    /\ IsAlnum(label[1])
    /\ \/ Len(label) = 1
       \/ /\ Len(label) - 2 <= MaxLabelInner
          /\ IsAlnum(label[Len(label)])
          /\ \A i \in 2..(Len(label) - 1) : IsAlnum(label[i]) \/ label[i] = "-"

\* ^label(\.label)*$|^[a-zA-Z0-9]$
MatchesHostnamePattern(address) ==
    LET labels == Split(address)
    IN \A g \in 1..Len(labels) : MatchesLabel(labels[g])

validate_ip_or_hostname(address) ==
    IF address = <<>> THEN FALSE
    ELSE IF address \in {Localhost, Loopback} THEN TRUE
    ELSE IF MatchesIPv4Pattern(address) THEN OctetsInRange(address)
    ELSE MatchesHostnamePattern(address)

-----------------------------------------------------------------------------
(* sanitize_icon_name *)

FallbackName == <<"i", "c", "o", "n">>

\* [a-zA-Z0-9\-_]
IsSafeChar(c) == IsAlnum(c) \/ c \in {"-", "_"}

\* re.sub(r'[^a-zA-Z0-9\-_]', '_', name)
ReplaceUnsafe(name) ==
    [i \in 1..Len(name) |-> IF IsSafeChar(name[i]) THEN name[i] ELSE "_"]

\* a variant of StripUnderscores that strips the leading underscores only (lstrip)
StripUnderscoresMutant(s) ==
    IF \A i \in 1..Len(s) : s[i] = "_" THEN <<>>
    ELSE LET first == CHOOSE i \in 1..Len(s) :
                          s[i] # "_" /\ \A j \in 1..(i - 1) : s[j] = "_"
         IN SubSeq(s, first, Len(s))

\* str.strip('_')
StripUnderscores(s) ==
    IF \A i \in 1..Len(s) : s[i] = "_" THEN <<>>
    ELSE LET first == CHOOSE i \in 1..Len(s) :
                          s[i] # "_" /\ \A j \in 1..(i - 1) : s[j] = "_"
             last == CHOOSE i \in 1..Len(s) :
                          s[i] # "_" /\ \A j \in (i + 1)..Len(s) : s[j] = "_"
         IN SubSeq(s, first, last)

sanitize_icon_name(name) ==
    LET sanitized == StripUnderscores(ReplaceUnsafe(name))
    IN IF sanitized # <<>> THEN sanitized ELSE FallbackName

-----------------------------------------------------------------------------
(* The network: what a server answers, and what urlopen makes of it *)

GIF == "gif"
PNG == "png"

\* a variant of Formats that prefers png
FormatsMutant == <<PNG, GIF>>

\* for ext in ['gif', 'png']
Formats == <<GIF, PNG>>

REQUEST_TIMEOUT == 10

Status(code, body) == [kind |-> "status", status |-> code, body |-> body]
URLError == [kind |-> "URLError", status |-> 0, body |-> <<>>]
OSError == [kind |-> "OSError", status |-> 0, body |-> <<>>]

\* http.client.HTTPException (BadStatusLine on a malformed status line,
\* IncompleteRead on a truncated body): neither a URLError nor an OSError
HTTPException == [kind |-> "HTTPException", status |-> 0, body |-> <<>>]

\* urllib.request.urlopen and response.read(): a 2xx answer is returned as the
\* response, any other status is raised as HTTPError, a transport failure is
\* raised as URLError (connection refused, timeout while connecting) or OSError
\* (timeout while reading), a malformed or truncated answer as HTTPException.
urlopen(reply) ==
    IF reply.kind = "status"
    THEN IF reply.status \in 200..299
         THEN [kind |-> "response", status |-> reply.status, body |-> reply.body]
         ELSE [kind |-> "HTTPError", status |-> reply.status, body |-> <<>>]
    ELSE [kind |-> reply.kind, status |-> 0, body |-> <<>>]

\* the bytes the catalog holds for an icon in a format
CatalogBytes(icon_id, ext) == <<ext, icon_id>>

\* a download request as logged: transport_error tells whether urlopen ended in
\* an error below HTTP (URLError that is no HTTPError, or OSError)
GetRequest(icon_id, ext, transport_error) ==
    [method |-> "GET",
     url |-> <<"https://developer.lametric.com/content/apps/icon_thumbs/", icon_id, ".", ext>>,
     timeout |-> REQUEST_TIMEOUT,
     transport_error |-> transport_error]

\* a variant of IsHTTPError that catches URLError: a failed connection is a miss
IsHTTPErrorMutant(response) == response.kind \in {"HTTPError", "URLError"}

\* except urllib.error.HTTPError: continue
IsHTTPError(response) == response.kind = "HTTPError"

-----------------------------------------------------------------------------
(* download_icon: env[ext] is what the catalog answers to the request for ext *)

Returned(data, ext, gets) ==
    [raised |-> "none", data |-> data, ext |-> ext, icon_id |-> 0, gets |-> gets]

Raised(exc, icon_id, gets) ==
    [raised |-> exc, data |-> <<>>, ext |-> None, icon_id |-> icon_id, gets |-> gets]

RECURSIVE download_from(_, _, _, _)
download_from(k, icon_id, env, gets) ==
    IF k > Len(Formats)
    THEN Raised("ValueError", icon_id, gets)
    ELSE LET ext == Formats[k]
             response == urlopen(env[ext])
             sent == Append(gets, GetRequest(icon_id, ext,
                                response.kind \in {"URLError", "OSError"}))
         IN IF response.kind = "response"
            THEN IF response.body # <<>>
                 THEN Returned(response.body, ext, sent)
                 ELSE download_from(k + 1, icon_id, env, sent)
            ELSE IF IsHTTPError(response)
            THEN download_from(k + 1, icon_id, env, sent)
            ELSE Raised(response.kind, icon_id, sent)

download_icon(icon_id, env) == download_from(1, icon_id, env, <<>>)

-----------------------------------------------------------------------------
(* upload_icon_to_awtrix *)

\* a variant of PostRequest that names the file by the unsanitized icon name
PostRequestMutant(device_ip, icon_name, icon_data, file_ext) ==
    [method |-> "POST",
     url |-> <<"http://", device_ip, "/edit">>,
     field |-> "data",
     filename |-> <<"/ICONS/", icon_name, ".", file_ext>>,
     content_type |-> <<"image/", file_ext>>,
     data |-> icon_data,
     timeout |-> REQUEST_TIMEOUT]

\* the multipart request of upload_icon_to_awtrix: one part, field "data"
PostRequest(device_ip, icon_name, icon_data, file_ext) ==
    [method |-> "POST",
     url |-> <<"http://", device_ip, "/edit">>,
     field |-> "data",
     filename |-> <<"/ICONS/", sanitize_icon_name(icon_name), ".", file_ext>>,
     content_type |-> <<"image/", file_ext>>,
     data |-> icon_data,
     timeout |-> REQUEST_TIMEOUT]

\* response.status in [200, 201]
SuccessStatuses == {200, 201}

\* except (urllib.error.URLError, OSError); HTTPError is a URLError
UploadCatches == {"HTTPError", "URLError", "OSError"}

\* the try block of upload_icon_to_awtrix: [raised, value]
UploadOutcome(response) ==
    IF response.kind = "response"
    THEN [raised |-> "none", value |-> response.status \in SuccessStatuses]
    ELSE IF response.kind \in UploadCatches
    THEN [raised |-> "none", value |-> FALSE]
    ELSE [raised |-> response.kind, value |-> FALSE]

upload_icon_to_awtrix(device_ip, icon_name, icon_data, file_ext, reply) ==
    LET outcome == UploadOutcome(urlopen(reply))
    IN [raised |-> outcome.raised,
        value |-> outcome.value,
        posts |-> <<PostRequest(device_ip, icon_name, icon_data, file_ext)>>]

-----------------------------------------------------------------------------
(* process_icon: env.gif, env.png answer the downloads, env.post the upload *)

\* except (urllib.error.URLError, OSError, ValueError)
ProcessCatches == {"HTTPError", "URLError", "OSError", "ValueError"}

process_icon(device_ip, icon_name, icon_id, env) ==
    LET downloaded == download_icon(icon_id, env)
        uploaded == upload_icon_to_awtrix(device_ip, icon_name,
                        downloaded.data, downloaded.ext, env.post)
    IN IF downloaded.raised # "none"
       THEN [raised |-> IF downloaded.raised \in ProcessCatches
                        THEN "none" ELSE downloaded.raised,
             value |-> FALSE,
             requests |-> downloaded.gets]
       ELSE [raised |-> IF uploaded.raised \in ProcessCatches
                        THEN "none" ELSE uploaded.raised,
             value |-> uploaded.raised = "none" /\ uploaded.value,
             requests |-> downloaded.gets \o uploaded.posts]

-----------------------------------------------------------------------------
(* main *)

StockUp == <<"s", "t", "o", "c", "k", "-", "u", "p">>
StockDown == <<"s", "t", "o", "c", "k", "-", "d", "o", "w", "n">>
StockNeutral == <<"s", "t", "o", "c", "k", "-", "n", "e", "u", "t", "r", "a", "l">>

DEFAULT_ICONS ==
    <<[name |-> StockUp, id |-> 40160],
      [name |-> StockDown, id |-> 40176],
      [name |-> StockNeutral, id |-> 40161]>>

\* a variant of DictSet that keeps the first value of a known key
DictSetMutant(d, name, id) ==
    IF \E k \in 1..Len(d) : d[k].name = name
    THEN d
    ELSE Append(d, [name |-> name, id |-> id])

\* d[name] = id on an insertion-ordered dict: a known key keeps its position
DictSet(d, name, id) ==
    IF \E k \in 1..Len(d) : d[k].name = name
    THEN [k \in 1..Len(d) |-> IF d[k].name = name THEN [name |-> name, id |-> id] ELSE d[k]]
    ELSE Append(d, [name |-> name, id |-> id])

\* d.update(other)
RECURSIVE DictUpdate(_, _)
DictUpdate(d, other) ==
    IF other = <<>> THEN d
    ELSE DictUpdate(DictSet(d, Head(other).name, Head(other).id), Tail(other))

\* str.strip() of the typed answer
IsSpace(c) == c = " "

Strip(s) ==
    IF \A i \in 1..Len(s) : IsSpace(s[i]) THEN <<>>
    ELSE LET first == CHOOSE i \in 1..Len(s) :
                          ~IsSpace(s[i]) /\ \A j \in 1..(i - 1) : IsSpace(s[j])
             last == CHOOSE i \in 1..Len(s) :
                          ~IsSpace(s[i]) /\ \A j \in (i + 1)..Len(s) : IsSpace(s[j])
         IN SubSeq(s, first, last)

\* the loop over args.icon: [ok, icons]; the first bad ID returns 1
RECURSIVE AddIcons(_, _)
AddIcons(d, pairs) ==
    IF pairs = <<>> THEN [ok |-> TRUE, icons |-> d]
    ELSE LET name == Head(pairs)[1]
             icon_id == int(Head(pairs)[2])
         IN IF ~icon_id.ok THEN [ok |-> FALSE, icons |-> d]
            ELSE IF icon_id.value <= 0 THEN [ok |-> FALSE, icons |-> d]
            ELSE AddIcons(DictSet(d, name, icon_id.value), Tail(pairs))

\* the device address main goes on with: the argument or, without one (not
\* args.device_ip), the stripped answer to the prompt
DeviceIp(a) == IF a.device_ip # <<>> THEN a.device_ip ELSE Strip(a.stdin)

BuildIcons(a) ==
    AddIcons(IF a.default_icons THEN DictUpdate(<<>>, DEFAULT_ICONS) ELSE <<>>, a.icon)

\* a variant of Preflight that goes on after a bad icon ID
PreflightMutant(a) ==
    IF a.list_default THEN <<0>>
    ELSE IF DeviceIp(a) = <<>> THEN <<1>>
    ELSE IF ~validate_ip_or_hostname(DeviceIp(a)) THEN <<1>>
    ELSE IF BuildIcons(a).icons = <<>> THEN <<1>>
    ELSE <<>>

\* main up to the for loop: <<code>> when it returns there, <<>> when the batch starts
Preflight(a) ==
    IF a.list_default THEN <<0>>
    ELSE IF DeviceIp(a) = <<>> THEN <<1>>
    ELSE IF ~validate_ip_or_hostname(DeviceIp(a)) THEN <<1>>
    ELSE IF ~BuildIcons(a).ok THEN <<1>>
    ELSE IF BuildIcons(a).icons = <<>> THEN <<1>>
    ELSE <<>>

\* a variant of ExitCode that returns 0 as soon as one icon succeeded
ExitCodeMutant(count, icons) == IF count > 0 THEN 0 ELSE 1

\* return 0 if success_count == len(icons_to_upload) else 1
ExitCode(count, icons) == IF count = Len(icons) THEN 0 ELSE 1

-----------------------------------------------------------------------------
(* Explored inputs *)

\* str(n) of a natural number
RECURSIVE ToDigits(_)
ToDigits(n) ==
    IF n < 10 THEN <<Digits[n + 1]>>
    ELSE Append(ToDigits(n \div 10), Digits[(n % 10) + 1])

RECURSIVE PadZeros(_, _)
PadZeros(s, width) == IF Len(s) >= width THEN s ELSE PadZeros(<<"0">> \o s, width)

RECURSIVE Join(_)
Join(labels) ==
    IF Len(labels) = 1 THEN labels[1]
    ELSE labels[1] \o <<".">> \o Join(Tail(labels))

GroupValues == {0, 255, 256, 1234}

DigitGroups ==
    {PadZeros(ToDigits(v), w) : v \in GroupValues, w \in 1..MaxDigits}
        \cap UNION {[1..n -> DigitChars] : n \in 1..MaxDigits}

OtherLabels == {<<"a">>, <<"a", "-", "b">>, <<"-", "a">>, <<>>}

AddressInputs ==
    {Join(l) : l \in UNION {[1..n -> DigitGroups \cup OtherLabels] : n \in 1..MaxGroups}}
        \cup {Localhost, Loopback}

NameChars == {"i", "c", "o", "n", "_", "-", "!", "7"}

NameInputs == UNION {[1..n -> NameChars] : n \in 0..MaxNameLen}

IconIds == {5, 9, 40160}

GetReplies(icon_id, ext) ==
    {Status(200, CatalogBytes(icon_id, ext)), Status(200, <<>>), Status(204, <<>>),
     Status(404, <<>>), Status(500, <<>>), URLError, OSError, HTTPException}

PostReplies ==
    {Status(200, <<>>), Status(201, <<>>), Status(204, <<>>),
     Status(404, <<>>), Status(500, <<>>), URLError, OSError, HTTPException}

\* the answers drawn for one icon of the batch; an answer to a request that is
\* never sent is not drawn (it is fixed to URLError)
BatchGetReplies(icon_id, ext) ==
    {Status(200, CatalogBytes(icon_id, ext)), Status(200, <<>>),
     Status(404, <<>>), URLError, OSError, HTTPException}

BatchPostReplies ==
    {Status(200, <<>>), Status(201, <<>>), Status(204, <<>>),
     Status(500, <<>>), URLError, OSError, HTTPException}

Requested(icon_id, env, ext) ==
    \E k \in 1..Len(download_icon(icon_id, env).gets) :
        download_icon(icon_id, env).gets[k].url[4] = ext

PngRepliesAfter(icon_id, g) ==
    IF Requested(icon_id, [gif |-> g, png |-> URLError], PNG)
    THEN BatchGetReplies(icon_id, PNG) ELSE {URLError}

PostRepliesAfter(icon_id, g, p) ==
    IF download_icon(icon_id, [gif |-> g, png |-> p]).raised = "none"
    THEN BatchPostReplies ELSE {URLError}

BatchEnvs(icon_id) ==
    UNION {UNION {{[gif |-> g, png |-> p, post |-> q] :
                      q \in PostRepliesAfter(icon_id, g, p)} :
                  p \in PngRepliesAfter(icon_id, g)} :
           g \in BatchGetReplies(icon_id, GIF)}

DeviceOk == <<"1", "0", ".", "0", ".", "0", ".", "7">>
DeviceBad == <<"2", "5", "6", ".", "1", ".", "1", ".", "1">>

Custom == <<"b", "!">>

\* the explored NAME ID pairs: a default name, a name given twice, bad IDs
IconPairs ==
    {<<StockUp, <<"5">>>>, <<StockUp, <<"9">>>>, <<Custom, <<"5">>>>,
     <<Custom, <<"0">>>>, <<Custom, <<"x">>>>, <<StockUp, <<"-", "5">>>>}

IconArgs == UNION {[1..n -> IconPairs] : n \in 0..MaxPairs}

\* the command lines: the answer at the prompt matters only without an address
ArgInputs ==
    {[device_ip |-> d, stdin |-> <<>>, default_icons |-> f, icon |-> i, list_default |-> l] :
        d \in {DeviceOk, DeviceBad}, f \in BOOLEAN, i \in IconArgs, l \in BOOLEAN}
    \cup
    {[device_ip |-> <<>>, stdin |-> t, default_icons |-> f, icon |-> i, list_default |-> l] :
        t \in {<<" ", " ">>, <<" ">> \o DeviceOk, DeviceBad},
        f \in BOOLEAN, i \in IconArgs, l \in BOOLEAN}

NoArgs == [device_ip |-> <<>>, stdin |-> <<>>, default_icons |-> FALSE,
           icon |-> <<>>, list_default |-> FALSE]

-----------------------------------------------------------------------------
(* main as a state machine *)

NoCall == [fn |-> "none"]

MainIdle ==
    /\ pc = "idle"
    /\ args = NoArgs
    /\ icons_to_upload = <<>>
    /\ idx = 1
    /\ success_count = 0
    /\ results = <<>>
    /\ net = <<>>
    /\ exit_code = <<>>

mainVars == <<pc, args, icons_to_upload, idx, success_count, results, net, exit_code>>

Init ==
    /\ call = NoCall
    /\ ret = <<>>
    /\ pc = "start"
    /\ args \in ArgInputs
    /\ icons_to_upload = <<>>
    /\ idx = 1
    /\ success_count = 0
    /\ results = <<>>
    /\ net = <<>>
    /\ exit_code = <<>>

\* main from parse_args to the start of the for loop, or to its early return
MainStart ==
    /\ pc = "start"
    /\ LET prompted == ~args.list_default /\ args.device_ip = <<>>
           addressOk == ~args.list_default /\ validate_ip_or_hostname(DeviceIp(args))
           code == Preflight(args)
       IN /\ args' = [args EXCEPT !.device_ip = IF prompted THEN DeviceIp(args) ELSE @,
                                  !.stdin = IF prompted THEN <<>> ELSE @]
          /\ icons_to_upload' = IF addressOk THEN BuildIcons(args).icons ELSE <<>>
          /\ exit_code' = code
          /\ pc' = IF code = <<>> THEN "loop" ELSE "early_return"
    /\ UNCHANGED <<call, ret, idx, success_count, results, net>>

\* one iteration of the for loop: process_icon and the counter
ProcessNext ==
    /\ pc = "loop"
    /\ idx <= Len(icons_to_upload)
    /\ LET icon == icons_to_upload[idx]
       IN \E env \in BatchEnvs(icon.id) :
            LET r == process_icon(args.device_ip, icon.name, icon.id, env)
            IN /\ net' = net \o r.requests
               /\ IF r.raised = "none"
                  THEN /\ results' = Append(results, r.value)
                       /\ success_count' = IF r.value THEN success_count + 1
                                           ELSE success_count
                       /\ idx' = idx + 1
                       /\ UNCHANGED <<pc, exit_code>>
                  ELSE \* an uncaught exception leaves main and ends the
                       \* interpreter with exit status 1
                       /\ pc' = "uncaught_exception"
                       /\ exit_code' = <<1>>
                       /\ UNCHANGED <<results, success_count, idx>>
    /\ UNCHANGED <<call, ret, args, icons_to_upload>>

\* the summary and the return after the loop
Summary ==
    /\ pc = "loop"
    /\ idx > Len(icons_to_upload)
    /\ pc' = "done"
    /\ exit_code' = <<ExitCode(success_count, icons_to_upload)>>
    /\ UNCHANGED <<call, ret, args, icons_to_upload, idx, success_count, results, net>>

Next == MainStart \/ ProcessNext \/ Summary

Spec == Init /\ [][Next]_vars

-----------------------------------------------------------------------------
(* The functions called on their own, on every explored input *)

InitValidate ==
    /\ call \in {[fn |-> "validate_ip_or_hostname", address |-> a] : a \in AddressInputs}
    /\ ret = <<>>
    /\ MainIdle

ValidateCall ==
    /\ call.fn = "validate_ip_or_hostname"
    /\ ret = <<>>
    /\ ret' = <<validate_ip_or_hostname(call.address)>>
    /\ UNCHANGED <<call, mainVars>>

SpecValidate == InitValidate /\ [][ValidateCall]_vars

InitSanitize ==
    /\ call \in {[fn |-> "sanitize_icon_name", name |-> n] : n \in NameInputs}
    /\ ret = <<>>
    /\ MainIdle

SanitizeCall ==
    /\ call.fn = "sanitize_icon_name"
    /\ ret = <<>>
    /\ ret' = <<sanitize_icon_name(call.name)>>
    /\ UNCHANGED <<call, mainVars>>

SpecSanitize == InitSanitize /\ [][SanitizeCall]_vars

InitDownload ==
    /\ call \in {[fn |-> "download_icon", icon_id |-> i, env |-> e] :
                    i \in IconIds,
                    e \in UNION {[gif : GetReplies(j, GIF), png : GetReplies(j, PNG)] :
                                    j \in IconIds}}
    /\ call.env \in [gif : GetReplies(call.icon_id, GIF), png : GetReplies(call.icon_id, PNG)]
    /\ ret = <<>>
    /\ MainIdle

DownloadCall ==
    /\ call.fn = "download_icon"
    /\ ret = <<>>
    /\ ret' = <<download_icon(call.icon_id, call.env)>>
    /\ UNCHANGED <<call, mainVars>>

SpecDownload == InitDownload /\ [][DownloadCall]_vars

InitUpload ==
    /\ call \in {[fn |-> "upload_icon_to_awtrix", device_ip |-> d, icon_name |-> n,
                  icon_data |-> b, file_ext |-> x, reply |-> r] :
                    d \in {DeviceOk, Localhost},
                    n \in {StockUp, Custom, <<"_", "_">>},
                    b \in {CatalogBytes(5, GIF), CatalogBytes(9, PNG)},
                    x \in {GIF, PNG},
                    r \in PostReplies}
    /\ ret = <<>>
    /\ MainIdle

UploadCall ==
    /\ call.fn = "upload_icon_to_awtrix"
    /\ ret = <<>>
    /\ ret' = <<upload_icon_to_awtrix(call.device_ip, call.icon_name,
                                      call.icon_data, call.file_ext, call.reply)>>
    /\ UNCHANGED <<call, mainVars>>

SpecUpload == InitUpload /\ [][UploadCall]_vars

-----------------------------------------------------------------------------
(* validate_ip_or_hostname: properties *)

Returned_(fn) == call.fn = fn /\ ret # <<>>

\* four dot-separated non-empty groups of decimal digits, of any digit count
FourDecimalGroups(address) ==
    LET groups == Split(address)
    IN /\ Len(groups) = 4
       /\ \A g \in 1..4 :
            /\ Len(groups[g]) >= 1
            /\ \A i \in 1..Len(groups[g]) : groups[g][i] \in DigitChars

EveryGroupAtMost255(address) ==
    \A g \in 1..Len(Split(address)) : DecimalValue(Split(address)[g]) \in 0..255

\* C6: an address of four dot-separated groups of decimal digits, other than
\* the loopback literal, is accepted only if every group is an integer in
\* [0,255], whatever the digit count of its groups.
C6_FourGroupsAcceptedOnlyInRange ==
    (/\ Returned_("validate_ip_or_hostname")
     /\ FourDecimalGroups(call.address)
     /\ call.address # Loopback
     /\ ret[1])
        => EveryGroupAtMost255(call.address)

-----------------------------------------------------------------------------
(* sanitize_icon_name: properties *)

OnlySafeChars(s) == \A i \in 1..Len(s) : IsSafeChar(s[i])

\* replacing and stripping leaves nothing: every character is unsafe or an underscore
NothingLeft(name) == \A i \in 1..Len(name) : ~IsSafeChar(name[i]) \/ name[i] = "_"

\* a non-empty name of safe characters with no underscore at either end
AlreadySafe(name) ==
    /\ name # <<>>
    /\ OnlySafeChars(name)
    /\ name[1] # "_"
    /\ name[Len(name)] # "_"

Underscores(n) == [i \in 1..n |-> "_"]

\* out is s without its leading and trailing underscores
IsStripped(out, s) ==
    /\ out # <<>>
    /\ out[1] # "_"
    /\ out[Len(out)] # "_"
    /\ \E a \in 0..Len(s) : \E b \in 0..Len(s) :
          s = Underscores(a) \o out \o Underscores(b)

\* C7 as stated: the result is non-empty and safe, it is the fallback token
\* exactly when replacing and stripping leaves the empty string, and an
\* already-safe name is returned unchanged.
C7_FallbackExactlyWhenEmpty ==
    Returned_("sanitize_icon_name") =>
        /\ ret[1] # <<>>
        /\ OnlySafeChars(ret[1])
        /\ (ret[1] = FallbackName) <=> NothingLeft(call.name)
        /\ AlreadySafe(call.name) => ret[1] = call.name

\* C7 amended: the result is non-empty and safe; it is the fallback token
\* whenever replacing and stripping leaves the empty string, and otherwise it is
\* the replaced name without its leading and trailing underscores (which may
\* itself read "icon"); an already-safe name is returned unchanged.
C7_SanitizeResult ==
    Returned_("sanitize_icon_name") =>
        /\ ret[1] # <<>>
        /\ OnlySafeChars(ret[1])
        /\ NothingLeft(call.name) => ret[1] = FallbackName
        /\ ~NothingLeft(call.name) => IsStripped(ret[1], ReplaceUnsafe(call.name))
        /\ AlreadySafe(call.name) => ret[1] = call.name

\* a name of underscores and unsafe characters only has been sanitized to the fallback
C7_Witness ==
    /\ Returned_("sanitize_icon_name")
    /\ call.name = <<"_", "!", "_">>
    /\ ret[1] = FallbackName

-----------------------------------------------------------------------------
(* download_icon: properties *)

\* a successful answer with a non-empty body
Hit(reply) ==
    reply.kind = "status" /\ reply.status \in 200..299 /\ reply.body # <<>>

\* an HTTP error status, or a successful answer with an empty body
Miss(reply) ==
    reply.kind = "status" /\ (reply.status \notin 200..299 \/ reply.body = <<>>)

\* an error that is no HTTP error status: a transport or protocol error
OtherError(reply) == reply.kind \in {"URLError", "OSError", "HTTPException"}

ExtsRequested(r) == [k \in 1..Len(r.gets) |-> r.gets[k].url[4]]

IsNotFound(r, icon_id) == r.raised = "ValueError" /\ r.icon_id = icon_id

\* the parts of C4 about the order of the formats and the returned pair
FormatOrder(r, env) ==
    /\ Len(r.gets) >= 1
    /\ ExtsRequested(r) \in {<<GIF>>, <<GIF, PNG>>}
    /\ Hit(env.gif) => r.raised = "none" /\ r.data = env.gif.body /\ r.ext = GIF
    /\ ExtsRequested(r) = <<GIF, PNG>> <=> Miss(env.gif)
    /\ (Miss(env.gif) /\ Hit(env.png)) =>
          r.raised = "none" /\ r.data = env.png.body /\ r.ext = PNG
    /\ r.raised = "none" =>
          r.ext \in {GIF, PNG} /\ r.data = env[r.ext].body /\ r.data # <<>>

\* C4 as stated: gif then png, png only after a gif miss, the returned format
\* is the one that produced the bytes, and whenever neither format yields a
\* non-empty successful response the call fails with the not-found error
\* that references the catalog ID.
C4_NotFoundWheneverNoHit ==
    Returned_("download_icon") =>
        /\ FormatOrder(ret[1], call.env)
        /\ (~Hit(call.env.gif) /\ ~Hit(call.env.png)) =>
              IsNotFound(ret[1], call.icon_id)

\* C4 amended: as stated, except that the not-found error is raised exactly
\* when both formats were requested and each was an HTTP error status or an
\* empty body; any other error on the gif attempt, or on the png attempt
\* after a gif miss, is raised instead of the not-found error.
C4_DownloadResult ==
    Returned_("download_icon") =>
        /\ FormatOrder(ret[1], call.env)
        /\ IsNotFound(ret[1], call.icon_id) <=> (Miss(call.env.gif) /\ Miss(call.env.png))
        /\ OtherError(call.env.gif) => ret[1].raised = call.env.gif.kind
        /\ (Miss(call.env.gif) /\ OtherError(call.env.png)) =>
              ret[1].raised = call.env.png.kind

\* the icon exists only as png: gif answered 404, png was returned
C4_Witness ==
    /\ Returned_("download_icon")
    /\ call.env.gif = Status(404, <<>>)
    /\ Hit(call.env.png)
    /\ ret[1].raised = "none"
    /\ ret[1].ext = PNG
    /\ ret[1].data = CatalogBytes(call.icon_id, PNG)

-----------------------------------------------------------------------------
(* upload_icon_to_awtrix: properties *)

\* C5: upload_icon_to_awtrix never raises; it returns true exactly when the
\* device answered 200 or 201, and false for any other status and for any
\* network-level exception.
C5_UploadNeverRaises ==
    Returned_("upload_icon_to_awtrix") =>
        /\ ret[1].raised = "none"
        /\ ret[1].value \in BOOLEAN
        /\ ret[1].value <=>
              (call.reply.kind = "status" /\ call.reply.status \in {200, 201})

-----------------------------------------------------------------------------
(* main: properties *)

IsGifGet(e) == e.method = "GET" /\ e.url[4] = GIF
IsPngGet(e) == e.method = "GET" /\ e.url[4] = PNG
IsPost(e) == e.method = "POST"

\* the icon a logged request belongs to: one gif request opens each icon
IconOf(j) == Cardinality({i \in 1..j : IsGifGet(net[i])})

GifGetIds == LET gifs == SelectSeq(net, IsGifGet) IN [k \in 1..Len(gifs) |-> gifs[k].url[2]]

BadIconId(token) == ~int(token).ok \/ int(token).value <= 0

\* an invalid address, a supplied ID that is no positive integer, or no icon requested
PreflightError ==
    \/ ~validate_ip_or_hostname(DeviceIp(args))
    \/ \E k \in 1..Len(args.icon) : BadIconId(args.icon[k][2])
    \/ (~args.default_icons /\ args.icon = <<>>)

\* the batch is run: main got past its early returns
BatchRun == pc \in {"loop", "done", "uncaught_exception"}

MainReturned == pc \in {"early_return", "done"}

\* C1: whatever the outcomes of the icons, the loop attempts every request
\* exactly once, in the order of icons_to_upload, and main reaches the
\* summary after the last one: a failed icon does not stop the ones after it.
C1_EveryIconAttemptedInOrder ==
    BatchRun =>
        /\ idx - 1 <= Len(icons_to_upload)
        /\ Len(results) = idx - 1
        /\ GifGetIds = [k \in 1..(idx - 1) |-> icons_to_upload[k].id]
        /\ pc # "uncaught_exception"
        /\ pc = "loop" => exit_code = <<>>
        /\ pc = "done" => idx - 1 = Len(icons_to_upload) /\ exit_code # <<>>

\* C2: when the batch is run, the exit code is 0 if and only if every
\* requested icon succeeded (the success count equals the number of icons),
\* and 1 on any partial or total failure.
C2_ExitZeroIffAllSucceeded ==
    (BatchRun /\ pc # "loop") =>
        /\ exit_code \in {<<0>>, <<1>>}
        /\ success_count = Cardinality({k \in 1..Len(results) : results[k]})
        /\ exit_code = <<0>> <=>
              /\ Len(results) = Len(icons_to_upload)
              /\ \A k \in 1..Len(results) : results[k]
        /\ exit_code = <<0>> <=> (pc = "done" /\ success_count = Len(icons_to_upload))

\* a partial failure returned 1
C2_Witness ==
    /\ BatchRun
    /\ pc = "done"
    /\ success_count >= 1
    /\ success_count < Len(icons_to_upload)
    /\ exit_code = <<1>>

\* C3 as stated: with an invalid address, a bad icon ID or no icon requested,
\* main returns 1 and has issued no request.
C3_PreflightErrorReturnsOne ==
    PreflightError =>
        /\ net = <<>>
        /\ results = <<>>
        /\ ~BatchRun
        /\ MainReturned => exit_code = <<1>>

\* C3 amended: with an invalid address, a bad icon ID or no icon requested,
\* main issues no request and attempts no icon, and returns 1 unless
\* --list-default was given, in which case it returns 0 before validating.
C3_PreflightErrorNoNetwork ==
    PreflightError =>
        /\ net = <<>>
        /\ results = <<>>
        /\ ~BatchRun
        /\ MainReturned => exit_code = IF args.list_default THEN <<0>> ELSE <<1>>

\* a bad ID after the default icons and a good pair: 1 is returned, nothing was sent
C3_Witness ==
    /\ pc = "early_return"
    /\ ~args.list_default
    /\ args.device_ip = DeviceOk
    /\ args.default_icons
    /\ args.icon = <<<<StockUp, <<"5">>>>, <<Custom, <<"x">>>>>>
    /\ exit_code = <<1>>
    /\ net = <<>>

\* C8: a transport error on the gif attempt is not a miss: png is not
\* requested and nothing is uploaded for that icon (the next request, if
\* any, opens the next icon), the icon is recorded as failed, and main
\* does not end before it has gone on to the next icon.
C8_TransportErrorFailsIconOnly ==
    \A j \in 1..Len(net) :
        (IsGifGet(net[j]) /\ net[j].transport_error) =>
            /\ j < Len(net) => IsGifGet(net[j + 1])
            /\ IconOf(j) <= Len(results)
            /\ ~results[IconOf(j)]
            /\ (IconOf(j) < Len(icons_to_upload) /\ pc # "loop") =>
                  \E i \in (j + 1)..Len(net) : IsGifGet(net[i])

\* the first icon hit a transport error on gif, the second one was uploaded
C8_Witness ==
    /\ pc = "done"
    /\ Len(net) >= 3
    /\ IsGifGet(net[1]) /\ net[1].transport_error
    /\ IsGifGet(net[2])
    /\ IsPost(net[3])
    /\ ~results[1] /\ results[2]

\* the upload request of icon k for the download e
IsUploadOf(post, e, k) ==
    /\ e.method = "GET"
    /\ ~e.transport_error
    /\ e.url[4] \in {GIF, PNG}
    /\ post.url = <<"http://", args.device_ip, "/edit">>
    /\ post.data = CatalogBytes(icons_to_upload[k].id, e.url[4])
    /\ post.filename = <<"/ICONS/", sanitize_icon_name(icons_to_upload[k].name), ".", e.url[4]>>
    /\ post.content_type = <<"image/", e.url[4]>>
    /\ OnlySafeChars(post.filename[2])

\* C9: the requests of one icon are one or two downloads, gif before png,
\* then at most one upload, sent only after a download that returned a
\* non-empty body and carrying its bytes and format; no upload is repeated,
\* and all requests of an icon precede those of the next.
C9_RequestsPerIcon ==
    /\ net # <<>> => IsGifGet(net[1])
    /\ pc # "uncaught_exception" => IconOf(Len(net)) <= Len(results)
    /\ \A j \in 1..Len(net) :
          /\ IconOf(j) \in 1..Len(icons_to_upload)
          /\ IsGifGet(net[j]) => net[j].url[2] = icons_to_upload[IconOf(j)].id
          /\ IsPngGet(net[j]) =>
                /\ IsGifGet(net[j - 1])
                /\ ~net[j - 1].transport_error
                /\ net[j].url[2] = icons_to_upload[IconOf(j)].id
          /\ IsPost(net[j]) => IsUploadOf(net[j], net[j - 1], IconOf(j))
          /\ (IconOf(j) <= Len(results) /\ results[IconOf(j)]) =>
                \E i \in j..Len(net) : IsPost(net[i]) /\ IconOf(i) = IconOf(j)

\* an icon found only as png was uploaded after two downloads, then the next icon began
C9_Witness ==
    /\ Len(net) >= 4
    /\ IsGifGet(net[1])
    /\ IsPngGet(net[2])
    /\ IsPost(net[3])
    /\ net[3].filename = <<"/ICONS/", <<"b">>, ".", PNG>>
    /\ IsGifGet(net[4])

DefaultNames == {DEFAULT_ICONS[k].name : k \in 1..Len(DEFAULT_ICONS)}

PairNames == {args.icon[k][1] : k \in 1..Len(args.icon)}

SuppliedNames == (IF args.default_icons THEN DefaultNames ELSE {}) \cup PairNames

\* the ID a name ends up with: that of its last --icon pair, else its default
LastId(name) ==
    IF name \in PairNames
    THEN LET last == CHOOSE k \in 1..Len(args.icon) :
                        /\ args.icon[k][1] = name
                        /\ \A m \in (k + 1)..Len(args.icon) : args.icon[m][1] # name
         IN int(args.icon[last][2]).value
    ELSE LET k == CHOOSE m \in 1..Len(DEFAULT_ICONS) : DEFAULT_ICONS[m].name = name
         IN DEFAULT_ICONS[k].id

\* C10: a name supplied more than once is processed exactly once, with the
\* ID supplied last, and counts once: the icons processed and the summary
\* total are the distinct names, not the supplied pairs.
C10_DuplicateNamesMerged ==
    BatchRun =>
        /\ \A k, m \in 1..Len(icons_to_upload) :
              icons_to_upload[k].name = icons_to_upload[m].name => k = m
        /\ {icons_to_upload[k].name : k \in 1..Len(icons_to_upload)} = SuppliedNames
        /\ Len(icons_to_upload) = Cardinality(SuppliedNames)
        /\ \A k \in 1..Len(icons_to_upload) :
              icons_to_upload[k].id = LastId(icons_to_upload[k].name)
        /\ pc = "done" =>
              /\ Len(results) = Cardinality(SuppliedNames)
              /\ GifGetIds = [k \in 1..Len(icons_to_upload) |->
                                 LastId(icons_to_upload[k].name)]

\* a default name was given twice on the command line: it ran once, with the last ID
C10_Witness ==
    /\ pc = "done"
    /\ args.default_icons
    /\ args.icon = <<<<StockUp, <<"5">>>>, <<StockUp, <<"9">>>>>>
    /\ Len(icons_to_upload) = 3
    /\ icons_to_upload[1] = [name |-> StockUp, id |-> 9]
    /\ Len(results) = 3
    /\ GifGetIds = <<9, 40176, 40161>>

====
